---- MODULE Spec2Model ----
(***************************************************************************)
(* TripoSR_3dify.ipynb: the Timer utility and the notebook's staged        *)
(* image-to-mesh pipeline (device selection, upload, configuration, model  *)
(* load, preprocessing, inference / render / export loop, preview).        *)
(*                                                                         *)
(* The notebook is executed top to bottom ("Run all"); an exception raised *)
(* in a cell stops the run.  Calls into torch, rembg, tsr and PIL are the  *)
(* environment: what they return is chosen nondeterministically inside the *)
(* action of the line that calls them, and each of them may raise.         *)
(***************************************************************************)
EXTENDS Integers, Sequences, FiniteSets, TLC

VARIABLES
  cudaAvailable,   \* torch.cuda.is_available()
  device,          \* notebook global `device`
  modelDevice,     \* device the model was placed on by model.to(device)
  no_remove_bg,    \* notebook global
  render,          \* notebook global
  pc,              \* next statement of the notebook to execute
  items,           \* Timer.items: name -> start time
  now,             \* time.time(), in whole seconds
  stdout,          \* lines printed so far
  pending,         \* device work queued and not yet executed
  starts,          \* per name, number of Timer.start calls made
  calls,           \* number of Timer calls made
  lastCall,        \* the latest Timer call: <<method, name>>
  image_with_bg_removed,  \* notebook global
  original_image,  \* notebook global
  image,           \* notebook global (working image of the preprocessing cell)
  images,          \* notebook global (list handed to the inference loop)
  rembgCalls,      \* number of invocations of remove_background
  dirs,            \* directories that exist
  fs,              \* files on disk: path -> content
  i,               \* loop index of the inference loop
  scene_codes,     \* notebook global
  render_images,   \* frames returned by model.render (render_images[0])
  ri,              \* index of the next frame to save
  meshes,          \* notebook global
  history          \* stages begun / completed, in order, per image index

vars == <<cudaAvailable, device, modelDevice, no_remove_bg, render, pc,
          items, now, stdout, pending, starts, calls, lastCall,
          original_image, image_with_bg_removed, image, images, rembgCalls, dirs, fs,
          i, scene_codes, render_images, ri, meshes, history>>

timerVars == <<items, stdout, pending, starts, calls, lastCall>>
pipeVars  == <<device, modelDevice, no_remove_bg, render,
               original_image, image_with_bg_removed, image, images,
               rembgCalls, dirs, fs,
               i, scene_codes, render_images, ri, meshes, history>>

(***************************************************************************)
(* Bounds                                                                  *)
(***************************************************************************)
MaxClock   == 1     \* the clock is read at 0 .. MaxClock
MaxPending == 1     \* at most this much device work is queued at a time
MaxCalls   == 4     \* Timer calls made by the free-call harness

None == "None"

(***************************************************************************)
(* Timer                                                                   *)
(***************************************************************************)
time_scale == 1000
time_unit  == "ms"

TimerNames == {"Initializing model", "Processing images", "Running model",
               "Rendering", "Exporting mesh"}

\* names the free-call harness passes to start / end
HarnessNames == {"Rendering", "Exporting mesh"}

\* a printed line
Line(text, name, t, unit) == [text |-> text, name |-> name, t |-> t, unit |-> unit]

\* print(f"{name} finished in {t:.2f}{self.time_unit}.")
Report(name, t) == Line("finished in", name, t, time_unit)

\* torch.cuda.synchronize(): blocks until the queued device work has run
Synchronize(q) == 0

\* Timer.start, lines 196-197
StartBarrier(q) == IF cudaAvailable THEN Synchronize(q) ELSE q

\* Timer.end, lines 203-204: `torch.cuda.synchronize` is an attribute
\* reference, not a call; evaluating it does nothing
EndBarrier(q) == IF cudaAvailable THEN q ELSE q

\* variant: self.items.setdefault(name, v), the first start time stays
PutKeepFirst(d, name, v) ==
  [n \in DOMAIN d \cup {name} |-> IF n \in DOMAIN d THEN d[n] ELSE v]

\* self.items[name] = v
Put(d, name, v) == [n \in DOMAIN d \cup {name} |-> IF n = name THEN v ELSE d[n]]

\* variant: self.items[name] or .get(name), the entry stays
PopKeep(d, name) == d

\* self.items.pop(name): the dictionary that remains
Pop(d, name) == [n \in DOMAIN d \ {name} |-> d[n]]

\* Timer.__init__
TimerInit ==
  /\ items = << >>
  /\ stdout = << >>
  /\ starts = [n \in TimerNames |-> 0]
  /\ calls = 0
  /\ lastCall = <<None, None>>

\* Timer.start(name)
TimerStart(name) ==
  /\ pending' = StartBarrier(pending)
  /\ items' = Put(items, name, now)
  /\ starts' = [starts EXCEPT ![name] = @ + 1]
  /\ calls' = calls + 1
  /\ lastCall' = <<"start", name>>
  /\ UNCHANGED stdout

\* variant: no membership test, self.items.pop(name, time.time())
TimerEndDefault(name) ==
  /\ calls' = calls + 1
  /\ lastCall' = <<"end", name>>
  /\ UNCHANGED starts
  /\ pending' = EndBarrier(pending)
  /\ items' = Pop(items, name)
  /\ stdout' = Append(stdout,
        Report(name, (now - (IF name \in DOMAIN items THEN items[name] ELSE now)) * time_scale))

\* Timer.end(name)
TimerEnd(name) ==
  /\ calls' = calls + 1
  /\ lastCall' = <<"end", name>>
  /\ UNCHANGED starts
  /\ IF name \notin DOMAIN items
       THEN UNCHANGED <<items, stdout, pending>>
       ELSE /\ pending' = EndBarrier(pending)
            /\ items' = Pop(items, name)
            /\ stdout' = Append(stdout, Report(name, (now - items[name]) * time_scale))

(***************************************************************************)
(* Environment: the wall clock and the compute device                      *)
(***************************************************************************)
\* time passes
ClockTick ==
  /\ pc \notin {"failed", "end"}
  /\ now < MaxClock
  /\ now' = now + 1
  /\ UNCHANGED <<cudaAvailable, pc, timerVars, pipeVars>>

\* the device executes one unit of queued work
DeviceDrain ==
  /\ pending > 0
  /\ pending' = pending - 1
  /\ UNCHANGED <<cudaAvailable, pc, now, items, stdout, starts, calls, lastCall, pipeVars>>

(***************************************************************************)
(* Free-call harness: any sequence of start / end calls on a Timer         *)
(***************************************************************************)
PipeIdle ==
  /\ device = None /\ modelDevice = None
  /\ no_remove_bg = TRUE /\ render = TRUE
  /\ original_image = None /\ image_with_bg_removed = None
  /\ image = None /\ images = << >>
  /\ rembgCalls = 0
  /\ dirs = {<<"examples">>} /\ fs = << >>
  /\ i = 0 /\ scene_codes = None /\ render_images = << >> /\ ri = 0
  /\ meshes = None /\ history = << >>

InitTimer ==
  /\ cudaAvailable \in BOOLEAN
  /\ pc = "timer"
  /\ now = 0 /\ pending = 0
  /\ TimerInit
  /\ PipeIdle

CallStart ==
  /\ pc = "timer" /\ calls < MaxCalls
  /\ \E name \in HarnessNames : TimerStart(name)
  /\ UNCHANGED <<cudaAvailable, pc, now, pipeVars>>

CallEnd ==
  /\ pc = "timer" /\ calls < MaxCalls
  /\ \E name \in HarnessNames : TimerEnd(name)
  /\ UNCHANGED <<cudaAvailable, pc, now, pipeVars>>

\* work is queued on the device between Timer calls
QueueWork ==
  /\ pc = "timer" /\ cudaAvailable
  /\ pending < MaxPending
  /\ pending' = pending + 1
  /\ UNCHANGED <<cudaAvailable, pc, now, items, stdout, starts, calls, lastCall, pipeVars>>

NextTimer == CallStart \/ CallEnd \/ QueueWork \/ ClockTick \/ DeviceDrain

TimerSpec == InitTimer /\ [][NextTimer]_vars

(***************************************************************************)
(* Paths, file names and the file system                                   *)
(***************************************************************************)
Digit == <<"0", "1", "2", "3", "4", "5", "6", "7", "8", "9">>

\* str(k) for k >= 0
RECURSIVE Str(_)
Str(k) == IF k < 10 THEN Digit[k + 1] ELSE Str(k \div 10) \o Digit[(k % 10) + 1]

\* variant: f"{k}", no padding
FmtUnpadded(k) == Str(k)

\* f"{k:03d}": decimal, padded with zeros on the left to at least 3 digits
Fmt03d(k) ==
  IF k < 10 THEN "00" \o Str(k)
  ELSE IF k < 100 THEN "0" \o Str(k)
  ELSE Str(k)

\* os.path.join(d, name); a path is the sequence of its components
Join(d, name) == Append(d, name)

\* directory part of a path
Parent(p) == SubSeq(p, 1, Len(p) - 1)

\* p lies in directory d (directly)
InDir(p, d) == Len(p) = Len(d) + 1 /\ Parent(p) = d

\* os.makedirs(d, exist_ok=True): d and all its ancestors
MakeDirs(ds, d) == ds \cup {SubSeq(d, 1, k) : k \in 1..Len(d)}

\* the file system after content c has been written to path p
WriteFile(f, p, c) == [q \in DOMAIN f \cup {p} |-> IF q = p THEN c ELSE f[q]]

\* variant: a handler removes the output of the failed run
AfterExceptionCleanup(f) == [q \in {p \in DOMAIN f : p[1] # "output"} |-> f[q]]

\* the notebook has no try / except / finally: an exception leaves the
\* files on disk as they are
AfterException(f) == f

\* configuration cell
output_dir        == <<"output">>     \* "output/".strip()
model_save_format == "obj"
n_views           == 30
fps               == 30

\* upload cell, line 250
ProductPng == <<"examples", "product.png">>

\* os.path.join(output_dir, str(k))
ImageDir(k) == Join(output_dir, Str(k))

\* line 406
InputPng(k) == Join(ImageDir(k), "input.png")

\* line 457
FramePng(k, r) == Join(Join(output_dir, Str(k)), "render_" \o Fmt03d(r) \o ".png")

\* line 459
RenderMp4(k) == Join(Join(output_dir, Str(k)), "render.mp4")

\* variant: the mesh is written next to the per-image directories
MeshFileFlat(k) == Join(output_dir, "mesh." \o model_save_format)

\* line 466
MeshFile(k) == Join(Join(output_dir, Str(k)), "mesh." \o model_save_format)

(***************************************************************************)
(* Images                                                                  *)
(***************************************************************************)
\* An image is represented by its mode and one pixel (a tuple of channel
\* values 0..255).
Colors == {<<255, 0, 0>>, <<10, 200, 30>>}
Alphas == {0, 128, 255}

Img(mode, px) == [mode |-> mode, px |-> px]

\* images the user may upload
UploadImages ==
  {Img("RGB", c) : c \in Colors} \cup
  {Img("RGBA", c \o <<a>>) : c \in Colors, a \in Alphas}

Channels(im) == Len(im.px)

\* lines 399-400 on one channel value c with alpha a:
\* (c/255 * a/255 + (1 - a/255) * 0.5) * 255, truncated by astype(uint8)
BlendChannel(c, a) == (2 * c * a + 255 * (255 - a)) \div 510

\* image[:, :, :3] * image[:, :, 3:4] + (1 - image[:, :, 3:4]) * 0.5
Blend(px) == [c \in 1..3 |-> BlendChannel(px[c], px[4])]

\* Image.fromarray on an H x W x C uint8 array
FromArray(px) == Img(IF Len(px) = 3 THEN "RGB" ELSE "RGBA", px)

\* variant: the mode test names the wrong mode
NeedsCompositeWrongMode(im) == im.mode = "RGB"

\* line 398
NeedsComposite(im) == im.mode = "RGBA"

\* lines 398-401
Composite(im) == IF NeedsComposite(im) THEN FromArray(Blend(im.px)) ELSE im

(***************************************************************************)
(* The notebook, cell by cell                                              *)
(***************************************************************************)
IsAccelerated(d) == d \in {"cuda", "cuda:0"}

Log(stage, k) == Append(history, <<stage, k>>)

Init ==
  /\ cudaAvailable \in BOOLEAN
  /\ pc = "select_device"
  /\ now = 0 /\ pending = 0
  /\ items = << >> /\ stdout = << >>
  /\ starts = [n \in TimerNames |-> 0]
  /\ calls = 0 /\ lastCall = <<None, None>>
  /\ PipeIdle

\* line 162
SelectDevice ==
  /\ pc = "select_device"
  /\ device' = IF cudaAvailable THEN "cuda" ELSE "cpu"
  /\ pc' = "create_timer"
  /\ UNCHANGED <<cudaAvailable, now, timerVars, modelDevice, no_remove_bg, render,
                 original_image, image_with_bg_removed, image, images,
                 rembgCalls, dirs, fs, i, scene_codes, render_images, ri,
                 meshes, history>>

\* line 210: timer = Timer()
CreateTimer ==
  /\ pc = "create_timer"
  /\ items' = << >>
  /\ pc' = "upload"
  /\ UNCHANGED <<cudaAvailable, now, stdout, pending, starts, calls, lastCall, pipeVars>>

\* lines 243-250
Upload ==
  /\ pc = "upload"
  /\ \E im \in UploadImages :
       /\ original_image' = im
       /\ fs' = WriteFile(fs, ProductPng, im)
  /\ pc' = "configure"
  /\ UNCHANGED <<cudaAvailable, now, timerVars, device, modelDevice, no_remove_bg,
                 render, image_with_bg_removed, image, images, rembgCalls, dirs,
                 i, scene_codes, render_images, ri, meshes, history>>

\* lines 282-294; no_remove_bg and render are the user's settings (the
\* notebook ships with True and True)
Configure ==
  /\ pc = "configure"
  /\ device' = "cuda:0"
  /\ no_remove_bg' \in BOOLEAN
  /\ render' \in BOOLEAN
  /\ dirs' = MakeDirs(dirs, output_dir)
  /\ pc' = "load_start"
  /\ UNCHANGED <<cudaAvailable, now, timerVars, modelDevice,
                 original_image, image_with_bg_removed, image, images,
                 rembgCalls, fs, i, scene_codes, render_images, ri,
                 meshes, history>>

\* line 340
LoadStart ==
  /\ pc = "load_start"
  /\ TimerStart("Initializing model")
  /\ pc' = "load_model"
  /\ UNCHANGED <<cudaAvailable, now, pipeVars>>

\* lines 341-351; model.to(device) raises when device names an accelerator
\* and none is available
LoadModel ==
  /\ pc = "load_model"
  /\ IF IsAccelerated(device) /\ ~cudaAvailable
       THEN /\ pc' = "failed"
            /\ UNCHANGED modelDevice
       ELSE /\ modelDevice' = device
            /\ pc' = "load_end"
  /\ UNCHANGED <<cudaAvailable, now, timerVars, device, no_remove_bg, render,
                 original_image, image_with_bg_removed, image, images,
                 rembgCalls, dirs, fs, i, scene_codes, render_images, ri,
                 meshes, history>>

\* line 353
LoadEnd ==
  /\ pc = "load_end"
  /\ TimerEnd("Initializing model")
  /\ pc' = "pre_start"
  /\ UNCHANGED <<cudaAvailable, now, pipeVars>>

\* lines 386-389
PreStart ==
  /\ pc = "pre_start"
  /\ TimerStart("Processing images")
  /\ images' = << >>
  /\ pc' = "remove_background"
  /\ UNCHANGED <<cudaAvailable, now, device, modelDevice, no_remove_bg, render,
                 original_image, image_with_bg_removed, image,
                 rembgCalls, dirs, fs, i, scene_codes, render_images, ri,
                 meshes, history>>

\* line 392: called whatever no_remove_bg is; the result is an RGBA image
\* whose background pixels are transparent
RemoveBackground ==
  /\ pc = "remove_background"
  /\ rembgCalls' = rembgCalls + 1
  /\ \E a \in Alphas :
       image_with_bg_removed' = Img("RGBA", SubSeq(original_image.px, 1, 3) \o <<a>>)
  /\ pc' = "resize_foreground"
  /\ UNCHANGED <<cudaAvailable, now, timerVars, device, modelDevice, no_remove_bg,
                 render, original_image, image, images, dirs, fs,
                 i, scene_codes, render_images, ri, meshes, history>>

\* line 395: crop to the foreground and pad with transparent pixels; the
\* result is RGBA
ResizeForeground ==
  /\ pc = "resize_foreground"
  /\ \E px \in {image_with_bg_removed.px, <<0, 0, 0, 0>>} :
       image' = Img("RGBA", px)
  /\ pc' = "composite"
  /\ UNCHANGED <<cudaAvailable, now, timerVars, device, modelDevice, no_remove_bg,
                 render, original_image, image_with_bg_removed, images,
                 rembgCalls, dirs, fs, i, scene_codes, render_images, ri,
                 meshes, history>>

\* lines 398-401
CompositeStep ==
  /\ pc = "composite"
  /\ image' = Composite(image)
  /\ pc' = "make_image_dir"
  /\ UNCHANGED <<cudaAvailable, now, timerVars, device, modelDevice, no_remove_bg,
                 render, original_image, image_with_bg_removed, images,
                 rembgCalls, dirs, fs, i, scene_codes, render_images, ri,
                 meshes, history>>

\* lines 404-405
MakeImageDir ==
  /\ pc = "make_image_dir"
  /\ dirs' = MakeDirs(dirs, ImageDir(0))
  /\ pc' = "save_input"
  /\ UNCHANGED <<cudaAvailable, now, timerVars, device, modelDevice, no_remove_bg,
                 render, original_image, image_with_bg_removed, image, images,
                 rembgCalls, fs, i, scene_codes, render_images, ri,
                 meshes, history>>

\* a save into a directory that does not exist raises
Save(p, c) ==
  IF Parent(p) \in dirs
    THEN fs' = WriteFile(fs, p, c)
    ELSE fs' = AfterException(fs)

Saved(p, next) == IF Parent(p) \in dirs THEN next ELSE "failed"

\* line 406
SaveInput ==
  /\ pc = "save_input"
  /\ Save(InputPng(0), image)
  /\ pc' = Saved(InputPng(0), "append_image")
  /\ UNCHANGED <<cudaAvailable, now, timerVars, device, modelDevice, no_remove_bg,
                 render, original_image, image_with_bg_removed, image, images,
                 rembgCalls, dirs, i, scene_codes, render_images, ri,
                 meshes, history>>

\* line 409
AppendImage ==
  /\ pc = "append_image"
  /\ images' = Append(images, image)
  /\ history' = Log("Preprocessed", Len(images))
  /\ pc' = "pre_end"
  /\ UNCHANGED <<cudaAvailable, now, timerVars, device, modelDevice, no_remove_bg,
                 render, original_image, image_with_bg_removed, image,
                 rembgCalls, dirs, fs, i, scene_codes, render_images, ri, meshes>>

\* line 411
PreEnd ==
  /\ pc = "pre_end"
  /\ TimerEnd("Processing images")
  /\ pc' = "loop_head"
  /\ UNCHANGED <<cudaAvailable, now, pipeVars>>

\* what the model returns; opaque to the notebook
Scene(im)      == [encodes |-> im]
Frame(sc, k)   == [scene |-> sc, view |-> k]
Mesh(sc)       == [geometry_of |-> sc]
Video(frames, rate) == [fps |-> rate, frames |-> frames]

\* device work a model call may leave queued when it returns
Queued(q) == IF IsAccelerated(device) THEN q..MaxPending ELSE {q}

\* lines 443-444; i is the index of the iteration about to run
LoopHead ==
  /\ pc = "loop_head"
  /\ IF i < Len(images)
       THEN /\ image' = images[i + 1]
            /\ stdout' = Append(stdout, Line("Running image", Str(i + 1) \o "/" \o Str(Len(images)), 0, ""))
            /\ pc' = "infer_start"
       ELSE /\ pc' = "complete"
            /\ UNCHANGED <<image, stdout>>
  /\ UNCHANGED <<cudaAvailable, now, items, pending, starts, calls, lastCall,
                 device, modelDevice, no_remove_bg, render, original_image,
                 image_with_bg_removed, images, rembgCalls, dirs, fs, i,
                 scene_codes, render_images, ri, meshes, history>>

\* line 447
InferStart ==
  /\ pc = "infer_start"
  /\ TimerStart("Running model")
  /\ history' = Log("InferStart", i)
  /\ pc' = "infer"
  /\ UNCHANGED <<cudaAvailable, now, device, modelDevice, no_remove_bg, render,
                 original_image, image_with_bg_removed, image, images,
                 rembgCalls, dirs, fs, i, scene_codes, render_images, ri, meshes>>

\* lines 448-449
Infer ==
  /\ pc = "infer"
  /\ scene_codes' = <<Scene(image)>>
  /\ pending' \in Queued(pending)
  /\ history' = Log("Inferred", i)
  /\ pc' = "infer_end"
  /\ UNCHANGED <<cudaAvailable, now, items, stdout, starts, calls, lastCall,
                 device, modelDevice, no_remove_bg, render, original_image,
                 image_with_bg_removed, image, images, rembgCalls, dirs, fs, i,
                 render_images, ri, meshes>>

\* line 450
InferEnd ==
  /\ pc = "infer_end"
  /\ TimerEnd("Running model")
  /\ pc' = "render_check"
  /\ UNCHANGED <<cudaAvailable, now, pipeVars>>

\* variant: the render branch is not gated
RenderAlways == TRUE

\* line 453
RenderEnabled == render

RenderCheck ==
  /\ pc = "render_check"
  /\ pc' = IF RenderEnabled THEN "render_start" ELSE "export_start"
  /\ UNCHANGED <<cudaAvailable, now, timerVars, pipeVars>>

\* line 454
RenderStart ==
  /\ pc = "render_start"
  /\ TimerStart("Rendering")
  /\ history' = Log("RenderStart", i)
  /\ pc' = "render_call"
  /\ UNCHANGED <<cudaAvailable, now, device, modelDevice, no_remove_bg, render,
                 original_image, image_with_bg_removed, image, images,
                 rembgCalls, dirs, fs, i, scene_codes, render_images, ri, meshes>>

\* line 455: the frames of render_images[0], in the order returned
RenderCall ==
  /\ pc = "render_call"
  /\ render_images' = [k \in 1..n_views |-> Frame(scene_codes[1], k - 1)]
  /\ pending' \in Queued(pending)
  /\ ri' = 0
  /\ pc' = IF n_views > 0 THEN "save_frame" ELSE "save_video"
  /\ UNCHANGED <<cudaAvailable, now, items, stdout, starts, calls, lastCall,
                 device, modelDevice, no_remove_bg, render, original_image,
                 image_with_bg_removed, image, images, rembgCalls, dirs, fs, i,
                 scene_codes, meshes, history>>

\* lines 456-457, one iteration
SaveFrame ==
  /\ pc = "save_frame"
  /\ Save(FramePng(i, ri), render_images[ri + 1])
  /\ ri' = ri + 1
  /\ pc' = Saved(FramePng(i, ri),
                 IF ri + 1 < Len(render_images) THEN "save_frame" ELSE "save_video")
  /\ UNCHANGED <<cudaAvailable, now, timerVars, device, modelDevice, no_remove_bg,
                 render, original_image, image_with_bg_removed, image, images,
                 rembgCalls, dirs, i, scene_codes, render_images, meshes, history>>

\* lines 458-460: save_video appends the frames to the file in list order
SaveVideo ==
  /\ pc = "save_video"
  /\ Save(RenderMp4(i), Video(render_images, fps))
  /\ pc' = Saved(RenderMp4(i), "render_end")
  /\ UNCHANGED <<cudaAvailable, now, timerVars, device, modelDevice, no_remove_bg,
                 render, original_image, image_with_bg_removed, image, images,
                 rembgCalls, dirs, i, scene_codes, render_images, ri, meshes,
                 history>>

\* line 461
RenderEnd ==
  /\ pc = "render_end"
  /\ TimerEnd("Rendering")
  /\ history' = Log("Rendered", i)
  /\ pc' = "export_start"
  /\ UNCHANGED <<cudaAvailable, now, device, modelDevice, no_remove_bg, render,
                 original_image, image_with_bg_removed, image, images,
                 rembgCalls, dirs, fs, i, scene_codes, render_images, ri, meshes>>

\* line 464
ExportStart ==
  /\ pc = "export_start"
  /\ TimerStart("Exporting mesh")
  /\ history' = Log("ExportStart", i)
  /\ pc' = "extract_mesh"
  /\ UNCHANGED <<cudaAvailable, now, device, modelDevice, no_remove_bg, render,
                 original_image, image_with_bg_removed, image, images,
                 rembgCalls, dirs, fs, i, scene_codes, render_images, ri, meshes>>

\* line 465
ExtractMesh ==
  /\ pc = "extract_mesh"
  /\ meshes' = <<Mesh(scene_codes[1])>>
  /\ pending' \in Queued(pending)
  /\ pc' = "export_mesh"
  /\ UNCHANGED <<cudaAvailable, now, items, stdout, starts, calls, lastCall,
                 device, modelDevice, no_remove_bg, render, original_image,
                 image_with_bg_removed, image, images, rembgCalls, dirs, fs, i,
                 scene_codes, render_images, ri, history>>

\* lines 466-467
ExportMesh ==
  /\ pc = "export_mesh"
  /\ Save(MeshFile(i), meshes[1])
  /\ history' = IF Parent(MeshFile(i)) \in dirs THEN Log("Exported", i) ELSE history
  /\ pc' = Saved(MeshFile(i), "export_end")
  /\ UNCHANGED <<cudaAvailable, now, timerVars, device, modelDevice, no_remove_bg,
                 render, original_image, image_with_bg_removed, image, images,
                 rembgCalls, dirs, i, scene_codes, render_images, ri, meshes>>

\* line 468, and the step of the for loop to the next image
ExportEnd ==
  /\ pc = "export_end"
  /\ TimerEnd("Exporting mesh")
  /\ history' = Log("Done", i)
  /\ i' = i + 1
  /\ pc' = "loop_head"
  /\ UNCHANGED <<cudaAvailable, now, device, modelDevice, no_remove_bg, render,
                 original_image, image_with_bg_removed, image, images,
                 rembgCalls, dirs, fs, scene_codes, render_images, ri, meshes>>

\* line 470
Complete ==
  /\ pc = "complete"
  /\ stdout' = Append(stdout, Line("Processing complete.", "", 0, ""))
  /\ pc' = "preview"
  /\ UNCHANGED <<cudaAvailable, now, items, pending, starts, calls, lastCall, pipeVars>>

\* line 497: Video(..., embed=True) reads the file
Preview ==
  /\ pc = "preview"
  /\ pc' = IF <<"output", "0", "render.mp4">> \in DOMAIN fs THEN "end" ELSE "failed"
  /\ UNCHANGED <<cudaAvailable, now, timerVars, pipeVars>>

\* statements that call into a library, which may raise
RaisingPcs == {"upload", "load_model", "remove_background", "resize_foreground",
               "save_input", "infer", "render_call", "save_frame", "save_video",
               "extract_mesh", "export_mesh", "preview"}

\* an exception propagates to the top of the cell and stops the run
Raise ==
  /\ pc \in RaisingPcs
  /\ pc' = "failed"
  /\ fs' = AfterException(fs)
  /\ UNCHANGED <<cudaAvailable, now, timerVars, device, modelDevice, no_remove_bg,
                 render, original_image, image_with_bg_removed, image, images,
                 rembgCalls, dirs, i, scene_codes, render_images, ri, meshes,
                 history>>

Next ==
  \/ SelectDevice \/ CreateTimer \/ Upload \/ Configure
  \/ LoadStart \/ LoadModel \/ LoadEnd
  \/ PreStart \/ RemoveBackground \/ ResizeForeground \/ CompositeStep
  \/ MakeImageDir \/ SaveInput \/ AppendImage \/ PreEnd
  \/ LoopHead \/ InferStart \/ Infer \/ InferEnd \/ RenderCheck
  \/ RenderStart \/ RenderCall \/ SaveFrame \/ SaveVideo \/ RenderEnd
  \/ ExportStart \/ ExtractMesh \/ ExportMesh \/ ExportEnd
  \/ Complete \/ Preview \/ Raise
  \/ ClockTick \/ DeviceDrain

Spec == Init /\ [][Next]_vars

(***************************************************************************)
(* Properties                                                              *)
(***************************************************************************)
Has(stage, k) == \E j \in 1..Len(history) : history[j] = <<stage, k>>

\* every occurrence of <<b, k>> is preceded by an occurrence of <<a, k>>
Before(a, b, k) ==
  \A j \in 1..Len(history) :
    history[j] = <<b, k>> => \E h \in 1..(j - 1) : history[h] = <<a, k>>

Indices == {history[j][2] : j \in 1..Len(history)}

\* the inference loop ran to its end: "Processing complete." was printed
Finished == \E j \in 1..Len(stdout) : stdout[j].text = "Processing complete."

\* C1: per image index the stages occur in the order Preprocessed ->
\* Inferred -> {Rendered, Exported} -> Done: inference starts only once the
\* preprocessed image exists (in the list and on disk), render and export
\* start only once inference has returned a scene encoding, rendering runs
\* exactly when `render` is true, and the mesh is exported in every run
\* that reaches its end, whatever `render` is.
C1_StageOrder ==
  /\ \A k \in Indices :
       /\ Before("Preprocessed", "InferStart", k)
       /\ Before("InferStart", "Inferred", k)
       /\ Before("Inferred", "RenderStart", k)
       /\ Before("Inferred", "ExportStart", k)
       /\ Before("RenderStart", "Rendered", k)
       /\ Before("ExportStart", "Exported", k)
       /\ Before("Exported", "Done", k)
       /\ Has("InferStart", k) => k < Len(images) /\ InputPng(k) \in DOMAIN fs
       /\ Has("RenderStart", k) \/ Has("ExportStart", k) => scene_codes # None
       /\ Has("RenderStart", k) => render
       /\ Has("ExportStart", k) => (Has("Rendered", k) <=> render)
  /\ Finished =>
       \A k \in 0..(Len(images) - 1) :
         /\ Has("Exported", k) /\ Has("Done", k)
         /\ RenderMp4(k) \in DOMAIN fs <=> render
         /\ MeshFile(k) \in DOMAIN fs

C1_Witness ==
  /\ Finished /\ ~render
  /\ Has("Exported", 0) /\ ~Has("Rendered", 0)

ExpectedFrameNames ==
  <<
     "render_000.png", "render_001.png", "render_002.png", "render_003.png",
     "render_004.png", "render_005.png", "render_006.png", "render_007.png",
     "render_008.png", "render_009.png", "render_010.png", "render_011.png",
     "render_012.png", "render_013.png", "render_014.png", "render_015.png",
     "render_016.png", "render_017.png", "render_018.png", "render_019.png",
     "render_020.png", "render_021.png", "render_022.png", "render_023.png",
     "render_024.png", "render_025.png", "render_026.png", "render_027.png",
     "render_028.png", "render_029.png"
  >>

ExpectedArtifacts ==
  {"input.png", "render.mp4", "mesh.obj"} \cup
  {ExpectedFrameNames[k] : k \in 1..30}

\* names of the files that lie in directory d
Listing(d) == {p[Len(p)] : p \in {q \in DOMAIN fs : InDir(q, d)}}

\* C2: every artifact is written into a directory that already exists, no
\* artifact of the image is written outside output/0, and after a run with
\* rendering enabled that reached its end output/0 holds exactly input.png,
\* render_000.png .. render_029.png, render.mp4 and mesh.obj.
C2_OutputLayout ==
  /\ [](\A p \in DOMAIN fs : p = ProductPng \/ InDir(p, <<"output", "0">>))
  /\ [](Finished /\ render => Listing(<<"output", "0">>) = ExpectedArtifacts)
  /\ [][\A p \in DOMAIN fs' \ DOMAIN fs : Parent(p) \in dirs]_vars

C2_Witness ==
  /\ Finished /\ render
  /\ Cardinality(Listing(<<"output", "0">>)) = 33

\* C3: the image saved as input.png and the image handed to inference
\* have exactly 3 channels (mode RGB), whatever the mode of the upload and
\* whatever the configuration flags are.
C3_NoAlpha ==
  /\ \A j \in 1..Len(images) : Channels(images[j]) = 3 /\ images[j].mode = "RGB"
  /\ \A p \in DOMAIN fs :
       p[Len(p)] = "input.png" => Channels(fs[p]) = 3 /\ fs[p].mode = "RGB"
  /\ pc = "infer" => Channels(image) = 3 /\ image.mode = "RGB"

C3_Witness ==
  /\ pc = "infer"
  /\ original_image.mode = "RGBA"
  /\ InputPng(0) \in DOMAIN fs
  /\ image = fs[InputPng(0)]

\* C4: when no_remove_bg is true, background removal is never invoked on
\* the uploaded image.
C4_NoRemoveBgBypasses == no_remove_bg => rembgCalls = 0

\* the frame files saved so far, as a set of names
FrameFiles == Listing(<<"output", "0">>) \ {"input.png", "render.mp4", "mesh.obj"}

RenderDone == pc \in {"render_end"} \/ Has("Rendered", 0)

\* C5: the render stage of N = 30 views saves exactly N frame files, the
\* k-th returned frame as render_{k:03d}.png, and render.mp4 holds the same
\* N frames in the same order.
C5_FramesAndVideo ==
  /\ pc = "save_frame" =>
       /\ ri < 30
       /\ FrameFiles = {ExpectedFrameNames[k] : k \in 1..ri}
  /\ RenderDone =>
       /\ Len(render_images) = 30
       /\ FrameFiles = {ExpectedFrameNames[k] : k \in 1..30}
       /\ \A k \in 0..29 :
            /\ fs[<<"output", "0", ExpectedFrameNames[k + 1]>>] = render_images[k + 1]
            /\ render_images[k + 1].view = k
       /\ Len(fs[<<"output", "0", "render.mp4">>].frames) = 30
       /\ \A k \in 0..29 :
            fs[<<"output", "0", "render.mp4">>].frames[k + 1] =
              fs[<<"output", "0", ExpectedFrameNames[k + 1]>>]

C5_Witness ==
  /\ pc = "render_end"
  /\ <<"output", "0", "render_029.png">> \in DOMAIN fs
  /\ <<"output", "0", "render.mp4">> \in DOMAIN fs

\* this step is a call of Timer.end(n)
EndCalled(n) == calls' = calls + 1 /\ lastCall' = <<"end", n>>

\* C6: Timer.end(name) for a name that is not active does not raise, prints
\* nothing and leaves the active intervals and their start times unchanged.
C6_EndInactiveNoOp ==
  [][\A n \in TimerNames :
       EndCalled(n) /\ n \notin DOMAIN items =>
         items' = items /\ stdout' = stdout /\ pc' = pc]_vars

C6_Witness ==
  /\ lastCall[1] = "end"
  /\ stdout = << >>
  /\ DOMAIN items # {}
  /\ lastCall[2] \notin DOMAIN items

IsReport(l, n) == l.text = "finished in" /\ l.name = n /\ l.unit = "ms"

ReportsOf(n) == Cardinality({j \in 1..Len(stdout) : IsReport(stdout[j], n)})

\* C7: Timer.end(name) on an active name removes the name and prints
\* exactly one "finished in" line for it, a further end(name) without a
\* start(name) in between prints nothing, and the number of reports for a
\* name never exceeds the number of start(name) calls.
C7_ReportedOnce ==
  /\ [](\A n \in TimerNames : ReportsOf(n) <= starts[n])
  /\ [][\A n \in TimerNames :
          EndCalled(n) =>
            IF n \in DOMAIN items
              THEN /\ n \notin DOMAIN items'
                   /\ Len(stdout') = Len(stdout) + 1
                   /\ SubSeq(stdout', 1, Len(stdout)) = stdout
                   /\ IsReport(stdout'[Len(stdout')], n)
              ELSE stdout' = stdout]_vars

C7_Witness ==
  \E n \in TimerNames :
    /\ calls = 3 /\ starts[n] = 1 /\ ReportsOf(n) = 1
    /\ lastCall = <<"end", n>>
    /\ Len(stdout) = 1

\* C8: with accelerated compute in use, Timer.end(name) on an active name
\* synchronizes with the device before it reads the clock: when the report
\* is printed no device work is queued.
C8_EndSynchronizes ==
  [][\A n \in TimerNames :
       cudaAvailable /\ EndCalled(n) /\ n \in DOMAIN items => pending' = 0]_vars

\* C9: the device given to model.to and to inference is an accelerator only
\* if one is available, and the CPU otherwise.
C9_DeviceFallback ==
  pc \in {"load_model", "infer"} =>
    /\ IsAccelerated(device) => cudaAvailable
    /\ ~cudaAvailable => device = "cpu"

\* C10: no step of the run, a failing one included, removes or changes a
\* file that is already on disk.
C10_NoRollback ==
  [][\A p \in DOMAIN fs : p \in DOMAIN fs' /\ fs'[p] = fs[p]]_vars

C10_Witness ==
  /\ pc = "failed"
  /\ InputPng(0) \in DOMAIN fs
  /\ FramePng(0, 0) \in DOMAIN fs
  /\ RenderMp4(0) \notin DOMAIN fs

\* this step is a call of Timer.start(n)
StartCalled(n) == calls' = calls + 1 /\ lastCall' = <<"start", n>>

\* C11: the Timer holds one start time per name: start(name), also on a
\* name that is already active, prints nothing, does not raise and sets the
\* name's start time to the current time, leaving the other names alone;
\* the start time then stays until end(name), which reports the time
\* elapsed since that most recent start and leaves the name inactive.
C11_RestartOverwrites ==
  [][\A n \in TimerNames :
       /\ StartCalled(n) =>
            /\ DOMAIN items' = DOMAIN items \cup {n}
            /\ items'[n] = now
            /\ \A m \in DOMAIN items \ {n} : items'[m] = items[m]
            /\ stdout' = stdout
            /\ pc' = pc
       /\ n \in DOMAIN items /\ ~StartCalled(n) /\ ~EndCalled(n) =>
            n \in DOMAIN items' /\ items'[n] = items[n]
       /\ EndCalled(n) /\ n \in DOMAIN items =>
            /\ n \notin DOMAIN items'
            /\ stdout' = Append(stdout,
                 [text |-> "finished in", name |-> n,
                  t |-> (now - items[n]) * 1000, unit |-> "ms"])]_vars

\* start, start again one second later, end at once: the report says 0 ms
C11_Witness ==
  \E n \in TimerNames :
    /\ calls = 3 /\ starts[n] = 2 /\ now = 1
    /\ lastCall = <<"end", n>>
    /\ n \notin DOMAIN items
    /\ Len(stdout) = 1 /\ IsReport(stdout[1], n) /\ stdout[1].t = 0

====
